---------------------------- MODULE Spec2Model ----------------------------
(***************************************************************************)
(* CatchAI Document Copilot: the document manager, the vector store, the   *)
(* conversation engine and the front-end handlers that drive them.         *)
(*                                                                         *)
(* Texts are sequences of blocks, one block standing for 100 characters,   *)
(* so CHUNK_SIZE (1000 characters) is 10 blocks, CHUNK_OVERLAP (200) is 2  *)
(* blocks and the PDF fallback threshold (100 characters) is 1 block.      *)
(* Distances are in tenths, so similarity 1 - d is 10 - d and the 0.7      *)
(* threshold is 7.                                                         *)
(***************************************************************************)
EXTENDS Integers, Sequences, FiniteSets, Bags, TLC

VARIABLES
    documents,             \* DocumentManager.documents
    eng_documents,         \* ConversationEngine.documents
    conversation_history,  \* ConversationEngine.conversation_history
    collection,            \* the Chroma collection: a bag of stored entries
    documents_processed,   \* st.session_state.documents_processed
    next_uuid,             \* the source of uuid.uuid4(): ids never repeat
    last                   \* what the last call returned or raised

vars == <<documents, eng_documents, conversation_history, collection,
          documents_processed, next_uuid, last>>

---------------------------------------------------------------------------
(* Program constants *)

MAX_FILES == 5
CHUNK_SIZE == 10
CHUNK_OVERLAP == 2
PDF_MIN_LEN == 1
HISTORY_WINDOW == 6
MAX_CHUNKS == 5
MIN_SCORE == 7

(* Bounds of the model *)

MaxUuid == 5        \* documents created through the manager in one run
MaxUploaded == 2    \* documents created by uploads in one session
MaxStored == 3      \* entries held by the collection
MaxIndexed == 2     \* entries held by the collection, in the app
MaxHistory == 8     \* messages held by the conversation history
MaxBatch == 2       \* files of one upload (plus the over-long batch)
MaxTurns == 1       \* chat turns between two changes of the documents, in the app
MaxTokens == 3      \* blocks of a text handed to extract_keywords
MaxManaged == 1     \* documents in the manager while the processor is called

---------------------------------------------------------------------------
(* Sequences *)

Range(s) == {s[i] : i \in 1..Len(s)}

LastN(s, n) == SubSeq(s, (IF Len(s) > n THEN Len(s) - n + 1 ELSE 1), Len(s))

RECURSIVE SeqToBag(_)
SeqToBag(s) ==
    IF s = <<>> THEN EmptyBag ELSE SetToBag({Head(s)}) (+) SeqToBag(Tail(s))

RECURSIVE Flatten(_)
Flatten(ss) == IF ss = <<>> THEN <<>> ELSE Head(ss) \o Flatten(Tail(ss))

SeqsUpTo(S, n) == UNION {[1..k -> S] : k \in 0..n}

---------------------------------------------------------------------------
(* Files on disk: what the extraction libraries see.                       *)
(*   open_ok   : open(file_path) succeeds                                  *)
(*   primary   : PyPDF2's text / the utf-8 decoding, or an error           *)
(*   secondary : pymupdf's text / the latin-1 decoding, or an error        *)

Read(text) == [ok |-> TRUE, text |-> text]
Unreadable == [ok |-> FALSE]

TextA == <<1, 2, 3, 4, 5, 6, 7, 8, 9, 10, 11, 12, 13, 14>>
TextB == <<21, 22, 23>>

FileA == [filename |-> "a.txt", size_ok |-> TRUE, open_ok |-> TRUE,
          primary |-> Read(TextA), secondary |-> Read(TextA)]
FileB == [filename |-> "b.PDF", size_ok |-> TRUE, open_ok |-> TRUE,
          primary |-> Read(TextB), secondary |-> Read(TextB)]
FileEmpty == [filename |-> "e.txt", size_ok |-> TRUE, open_ok |-> TRUE,
              primary |-> Read(<<>>), secondary |-> Read(<<>>)]
FileDocx == [filename |-> "c.docx", size_ok |-> TRUE, open_ok |-> TRUE,
             primary |-> Read(TextB), secondary |-> Read(TextB)]
FileBroken == [filename |-> "x.pdf", size_ok |-> TRUE, open_ok |-> TRUE,
               primary |-> Unreadable, secondary |-> Unreadable]
FileBig == [filename |-> "big.txt", size_ok |-> FALSE, open_ok |-> TRUE,
            primary |-> Read(TextB), secondary |-> Read(TextB)]

Files == {FileA, FileB, FileEmpty, FileDocx, FileBroken, FileBig}

(* The uploader widget passes .pdf and .txt files only *)
UploadFiles == {FileA, FileB, FileBroken, FileBig}

---------------------------------------------------------------------------
(* Results of a call: a value, or an exception *)

Ok(v) == [raised |-> FALSE, value |-> v]
Raise(kind, msg) == [raised |-> TRUE, kind |-> kind, message |-> msg]

---------------------------------------------------------------------------
(* DocumentProcessor *)

(* Path(filename).suffix.lower() over the file names of the model *)
Suffix(filename) ==
    CASE filename \in {"a.txt", "e.txt", "big.txt"} -> ".txt"
      [] filename = "b.PDF" -> ".PDF"
      [] filename = "x.pdf" -> ".pdf"
      [] filename = "c.docx" -> ".docx"

Lower(suffix) ==
    CASE suffix = ".PDF" -> ".pdf"
      [] suffix = ".TXT" -> ".txt"
      [] OTHER -> suffix

(* process_pdf falling back also when the text is just long enough *)
Mut_process_pdf_falls_back_at_threshold(file) ==
    IF ~file.open_ok THEN Raise("ValueError", <<"Failed to process PDF: ", "open">>)
    ELSE IF ~file.primary.ok
         THEN Raise("ValueError", <<"Failed to process PDF: ", "PyPDF2">>)
    ELSE IF Len(file.primary.text) <= PDF_MIN_LEN
         THEN IF ~file.secondary.ok
              THEN Raise("ValueError", <<"Failed to process PDF: ", "fitz">>)
              ELSE Ok(file.secondary.text)
    ELSE Ok(file.primary.text)

(* The library calls process_pdf makes, in order *)
PdfCallsMade(file) ==
    IF ~file.open_ok THEN <<"open">>
    ELSE IF ~file.primary.ok THEN <<"open", "PyPDF2">>
    ELSE IF Len(file.primary.text) < PDF_MIN_LEN THEN <<"open", "PyPDF2", "fitz">>
    ELSE <<"open", "PyPDF2">>

process_pdf(file) ==
    IF ~file.open_ok THEN Raise("ValueError", <<"Failed to process PDF: ", "open">>)
    ELSE IF ~file.primary.ok
         THEN Raise("ValueError", <<"Failed to process PDF: ", "PyPDF2">>)
    ELSE IF Len(file.primary.text) < PDF_MIN_LEN
         THEN IF ~file.secondary.ok
              THEN Raise("ValueError", <<"Failed to process PDF: ", "fitz">>)
              ELSE Ok(file.secondary.text)
    ELSE Ok(file.primary.text)

process_txt(file) ==
    IF ~file.open_ok THEN Raise("OSError", <<"open">>)
    ELSE IF ~file.primary.ok THEN Ok(file.secondary.text)
    ELSE Ok(file.primary.text)

create_document(file, filename, uuid) ==
    LET file_ext == Lower(Suffix(filename))
        made(doc_type, content) ==
            IF content.raised THEN content
            ELSE Ok([id |-> uuid, filename |-> filename, file_type |-> doc_type,
                     content |-> content.value, topics |-> <<>>])
    IN  CASE file_ext = ".pdf" -> made("pdf", process_pdf(file))
          [] file_ext = ".txt" -> made("txt", process_txt(file))
          [] OTHER -> Raise("ValueError", <<"Unsupported file type: ", file_ext>>)

(* RecursiveCharacterTextSplitter on a text without separators: windows of *)
(* chunk_size blocks, each starting chunk_size - chunk_overlap after the   *)
(* one before it.                                                          *)
RECURSIVE split_text(_)
split_text(text) ==
    IF Len(text) = 0 THEN <<>>
    ELSE IF Len(text) <= CHUNK_SIZE THEN <<text>>
    ELSE <<SubSeq(text, 1, CHUNK_SIZE)>>
         \o split_text(SubSeq(text, CHUNK_SIZE - CHUNK_OVERLAP + 1, Len(text)))

(* create_chunks numbering the chunks from one *)
Mut_create_chunks_one_based(document) ==
    IF document.content = <<>> THEN <<>>
    ELSE LET chunks == split_text(document.content)
         IN  [i \in 1..Len(chunks) |->
                [id |-> <<document.id, i>>,
                 document_id |-> document.id,
                 content |-> chunks[i],
                 metadata |-> [document_id |-> document.id,
                               filename |-> document.filename,
                               file_type |-> document.file_type,
                               chunk_index |-> i,
                               total_chunks |-> Len(chunks)]]]

create_chunks(document) ==
    IF document.content = <<>> THEN <<>>
    ELSE LET chunks == split_text(document.content)
         IN  [i \in 1..Len(chunks) |->
                [id |-> <<document.id, i - 1>>,
                 document_id |-> document.id,
                 content |-> chunks[i],
                 metadata |-> [document_id |-> document.id,
                               filename |-> document.filename,
                               file_type |-> document.file_type,
                               chunk_index |-> i - 1,
                               total_chunks |-> Len(chunks)]]]

---------------------------------------------------------------------------
(* extract_keywords.  A block of text holds tokens: runs of characters     *)
(* between word boundaries, upper or lower case, alphabetic or not.        *)

BlockTokens(block) ==
    CASE block = 1 -> <<"The", "cat", "dog", "cat">>
      [] block = 21 -> <<"Cat", "ox", "sun">>
      [] block = 51 -> <<"The">>
      [] block = 52 -> <<"Cat">>
      [] block = 53 -> <<"cat">>
      [] block = 54 -> <<"dog">>
      [] block = 55 -> <<"ox">>
      [] OTHER -> <<>>

Tokens(text) == Flatten([i \in 1..Len(text) |-> BlockTokens(text[i])])

(* str.lower() over the tokens of the model *)
LowerWord(token) ==
    CASE token = "The" -> "the"
      [] token = "Cat" -> "cat"
      [] OTHER -> token

(* the lower-case tokens that [a-zA-Z]{3,} between word boundaries matches *)
MatchesWordPattern(word) == word \in {"the", "cat", "dog", "sun"}

(* the stop words found among the tokens of the model *)
stop_words == {"the"}

DEFAULT_MAX_KEYWORDS == 10

RECURSIVE FirstSeen(_)
FirstSeen(words) ==
    IF words = <<>> THEN <<>>
    ELSE <<Head(words)>> \o FirstSeen(SelectSeq(Tail(words), LAMBDA w : w # Head(words)))

(* Counter.most_common(n): by count, largest first; words of equal count   *)
(* in the order they were first seen.                                      *)
RECURSIVE most_common(_, _, _)
most_common(words, keys, n) ==
    IF n <= 0 \/ keys = <<>> THEN <<>>
    ELSE LET count(w) == Len(SelectSeq(words, LAMBDA v : v = w))
             i == CHOOSE k \in 1..Len(keys) :
                     /\ \A j \in 1..Len(keys) : count(keys[j]) <= count(keys[k])
                     /\ \A j \in 1..(k - 1) : count(keys[j]) < count(keys[k])
         IN  <<keys[i]>>
             \o most_common(words, SubSeq(keys, 1, i - 1) \o SubSeq(keys, i + 1, Len(keys)),
                            n - 1)

(* extract_keywords counting the stop words as well *)
Mut_extract_keywords_keeps_stop_words(text, max_keywords) ==
    LET tokens == Tokens(text)
        words == SelectSeq([i \in 1..Len(tokens) |-> LowerWord(tokens[i])],
                           MatchesWordPattern)
    IN  most_common(words, FirstSeen(words), max_keywords)

extract_keywords(text, max_keywords) ==
    LET tokens == Tokens(text)
        words == SelectSeq([i \in 1..Len(tokens) |-> LowerWord(tokens[i])],
                           MatchesWordPattern)
        counted == SelectSeq(words, LAMBDA w : w \notin stop_words)
    IN  most_common(counted, FirstSeen(counted), max_keywords)

(* add_document's assignment of document.topics *)
WithTopics(document) ==
    [document EXCEPT !.topics = extract_keywords(document.content, DEFAULT_MAX_KEYWORDS)]

---------------------------------------------------------------------------
(* DocumentManager: each operation maps the list to the new list and the   *)
(* call's result.                                                          *)

(* DM_add_document with the limit tested one too late *)
Mut_add_document_off_by_one(docs, file, filename, uuid) ==
    IF Len(docs) > MAX_FILES
    THEN [documents |-> docs,
          result |-> Raise("ValueError", <<"Maximum number of files exceeded">>)]
    ELSE LET document == create_document(file, filename, uuid)
         IN  IF document.raised
             THEN [documents |-> docs, result |-> document]
             ELSE [documents |-> Append(docs, WithTopics(document.value)),
                   result |-> Ok(WithTopics(document.value))]

(* DM_add_document putting the new document at the head of the list *)
Mut_add_document_prepends(docs, file, filename, uuid) ==
    IF Len(docs) >= MAX_FILES
    THEN [documents |-> docs,
          result |-> Raise("ValueError", <<"Maximum number of files exceeded">>)]
    ELSE LET document == create_document(file, filename, uuid)
         IN  IF document.raised
             THEN [documents |-> docs, result |-> document]
             ELSE [documents |-> <<WithTopics(document.value)>> \o docs,
                   result |-> Ok(WithTopics(document.value))]

DM_add_document(docs, file, filename, uuid) ==
    IF Len(docs) >= MAX_FILES
    THEN [documents |-> docs,
          result |-> Raise("ValueError", <<"Maximum number of files exceeded">>)]
    ELSE LET document == create_document(file, filename, uuid)
         IN  IF document.raised
             THEN [documents |-> docs, result |-> document]
             ELSE [documents |-> Append(docs, WithTopics(document.value)),
                   result |-> Ok(WithTopics(document.value))]

None == [none |-> TRUE]

DM_get_document(docs, doc_id) ==
    IF \E i \in 1..Len(docs) : docs[i].id = doc_id
    THEN docs[CHOOSE i \in 1..Len(docs) :
                 /\ docs[i].id = doc_id
                 /\ \A j \in 1..(i - 1) : docs[j].id # doc_id]
    ELSE None

DM_list_documents(docs) == docs

(* DM_remove_document deleting the entry after the one found *)
Mut_remove_document_next(docs, doc_id) ==
    IF \E i \in 1..Len(docs) : docs[i].id = doc_id
    THEN LET i == CHOOSE k \in 1..Len(docs) :
                     /\ docs[k].id = doc_id
                     /\ \A j \in 1..(k - 1) : docs[j].id # doc_id
         IN  [documents |-> SubSeq(docs, 1, i) \o SubSeq(docs, i + 2, Len(docs)),
              result |-> TRUE]
    ELSE [documents |-> docs, result |-> FALSE]

DM_remove_document(docs, doc_id) ==
    IF \E i \in 1..Len(docs) : docs[i].id = doc_id
    THEN LET i == CHOOSE k \in 1..Len(docs) :
                     /\ docs[k].id = doc_id
                     /\ \A j \in 1..(k - 1) : docs[j].id # doc_id
         IN  [documents |-> SubSeq(docs, 1, i - 1) \o SubSeq(docs, i + 1, Len(docs)),
              result |-> TRUE]
    ELSE [documents |-> docs, result |-> FALSE]

DM_clear_documents(docs) == <<>>

---------------------------------------------------------------------------
(* VectorStore over the Chroma collection.  Chroma.add_documents is called *)
(* without ids, so the library files every entry under a new uuid of its   *)
(* own: the collection is a bag, and chunk_id is one more metadata field.  *)

Entry(chunk) ==
    [page_content |-> chunk.content,
     metadata |-> [document_id |-> chunk.document_id,
                   filename |-> chunk.metadata.filename,
                   file_type |-> chunk.metadata.file_type,
                   chunk_index |-> chunk.metadata.chunk_index,
                   total_chunks |-> chunk.metadata.total_chunks,
                   chunk_id |-> chunk.id]]

(* VS_add_chunks handing an empty list to the store as well *)
Mut_add_chunks_no_early_return(coll, chunks, embed_ok) ==
    IF ~embed_ok
    THEN [collection |-> coll,
          result |-> Raise("RetrievalError", <<"embedding">>)]
    ELSE [collection |-> coll (+) SeqToBag([i \in 1..Len(chunks) |-> Entry(chunks[i])]),
          result |-> Ok("None")]

(* embed_ok: the embedding request of this call succeeds *)
VS_add_chunks(coll, chunks, embed_ok) ==
    IF chunks = <<>> THEN [collection |-> coll, result |-> Ok("None")]
    ELSE IF ~embed_ok
         THEN [collection |-> coll,
               result |-> Raise("RetrievalError", <<"embedding">>)]
    ELSE [collection |-> coll (+) SeqToBag([i \in 1..Len(chunks) |-> Entry(chunks[i])]),
          result |-> Ok("None")]

VS_remove_document(coll, document_id) ==
    LET ids == {e \in BagToSet(coll) : e.metadata.document_id = document_id}
    IN  IF ids # {}
        THEN [e \in BagToSet(coll) \ ids |-> coll[e]]
        ELSE coll

VS_clear_all(coll) == EmptyBag

VS_get_stats(coll) == [total_chunks |-> BagCardinality(coll)]

(* The embedding model, as the distance it induces between a query and a   *)
(* stored text (tenths; a distance over 10 gives a negative similarity).   *)
Distance(query, page_content) ==
    LET first == Head(page_content)
    IN  IF query = <<"q1">>
        THEN CASE first = 1 -> 1
               [] first = 21 -> 2
               [] OTHER -> 3
        ELSE CASE first = 1 -> 4
               [] first = 21 -> 8
               [] OTHER -> 12

Matches(e, filter_dict) ==
    filter_dict = None \/ e.metadata.document_id \in filter_dict.document_ids

(* The k nearest entries, nearest first; entries at the same distance come *)
(* in any order.                                                           *)
RECURSIVE Nearest(_, _, _)
Nearest(bag, query, k) ==
    IF k = 0 \/ BagToSet(bag) = {} THEN {<<>>}
    ELSE LET S == BagToSet(bag)
             d == CHOOSE x \in {Distance(query, e.page_content) : e \in S} :
                      \A f \in S : x <= Distance(query, f.page_content)
         IN  UNION {{<<[doc |-> e, score |-> d]>> \o rest :
                         rest \in Nearest(bag (-) SetToBag({e}), query, k - 1)} :
                    e \in {f \in S : Distance(query, f.page_content) = d}}

(* Everything one call of search can do: fail, or return a result list *)
VS_search(coll, query, k, filter_dict) ==
    {Raise("RetrievalError", <<"search">>)}
    \cup {Ok(r) : r \in Nearest([e \in {f \in BagToSet(coll) : Matches(f, filter_dict)}
                                   |-> coll[e]], query, k)}

SectionDelimiter == <<-1>>
NoContextSentinel == <<-2>>

RECURSIVE Join(_, _)
Join(sep, parts) ==
    IF parts = <<>> THEN <<>>
    ELSE IF Len(parts) = 1 THEN parts[1]
    ELSE parts[1] \o sep \o Join(sep, Tail(parts))

(* VS_get_relevant_context leaving out a chunk that is exactly at the      *)
(* threshold                                                               *)
Mut_get_relevant_context_strict(results, min_score) ==
    LET relevant_chunks ==
            SelectSeq(results, LAMBDA r : 10 - r.score > min_score)
    IN  IF relevant_chunks = <<>> THEN NoContextSentinel
        ELSE Join(SectionDelimiter,
                  [i \in 1..Len(relevant_chunks) |-> relevant_chunks[i].doc.page_content])

(* VS_get_relevant_context keeping the chunks at or below the threshold *)
Mut_get_relevant_context_at_most(results, min_score) ==
    LET relevant_chunks ==
            SelectSeq(results, LAMBDA r : 10 - r.score <= min_score)
    IN  IF relevant_chunks = <<>> THEN NoContextSentinel
        ELSE Join(SectionDelimiter,
                  [i \in 1..Len(relevant_chunks) |-> relevant_chunks[i].doc.page_content])

(* results: what this call's search returned *)
VS_get_relevant_context(results, min_score) ==
    LET relevant_chunks ==
            SelectSeq(results, LAMBDA r : 10 - r.score >= min_score)
    IN  IF relevant_chunks = <<>> THEN NoContextSentinel
        ELSE Join(SectionDelimiter,
                  [i \in 1..Len(relevant_chunks) |-> relevant_chunks[i].doc.page_content])

---------------------------------------------------------------------------
(* SemanticSearchEngine *)

RECURSIVE SumScores(_)
SumScores(results) ==
    IF results = <<>> THEN 0 ELSE Head(results).score + SumScores(Tail(results))

Max(a, b) == IF a >= b THEN a ELSE b

(* SE_search_documents averaging over the chunks that pass the threshold *)
Mut_search_documents_filtered_confidence(search1, search2) ==
    IF search1.raised THEN search1
    ELSE LET results == search1.value
             passing == SelectSeq(results, LAMBDA r : 10 - r.score >= MIN_SCORE)
             source_chunks ==
                 [i \in 1..Len(results) |->
                    [id |-> results[i].doc.metadata.chunk_id,
                     document_id |-> results[i].doc.metadata.document_id,
                     content |-> results[i].doc.page_content,
                     metadata |-> results[i].doc.metadata]]
             confidence ==
                 IF passing # <<>>
                 THEN [num |-> Max(0, 10 * Len(passing) - SumScores(passing)),
                       den |-> 10 * Len(passing)]
                 ELSE [num |-> 0, den |-> 1]
         IN  IF search2.raised THEN search2
             ELSE Ok([answer |-> VS_get_relevant_context(search2.value, MIN_SCORE),
                      sources |-> source_chunks,
                      confidence |-> confidence])

(* search1, search2: the outcomes of the two calls of VectorStore.search,  *)
(* the first made here, the second inside get_relevant_context.  The       *)
(* confidence max(0, 1 - sum/n) is kept as the fraction num/den.           *)
SE_search_documents(search1, search2) ==
    IF search1.raised THEN search1
    ELSE LET results == search1.value
             source_chunks ==
                 [i \in 1..Len(results) |->
                    [id |-> results[i].doc.metadata.chunk_id,
                     document_id |-> results[i].doc.metadata.document_id,
                     content |-> results[i].doc.page_content,
                     metadata |-> results[i].doc.metadata]]
             confidence ==
                 IF results # <<>>
                 THEN [num |-> Max(0, 10 * Len(results) - SumScores(results)),
                       den |-> 10 * Len(results)]
                 ELSE [num |-> 0, den |-> 1]
         IN  IF search2.raised THEN search2
             ELSE Ok([answer |-> VS_get_relevant_context(search2.value, MIN_SCORE),
                      sources |-> source_chunks,
                      confidence |-> confidence])

---------------------------------------------------------------------------
(* ConversationEngine.  env holds what the outside world does during the   *)
(* call: env.search1 and env.search2 are the outcomes of the two searches, *)
(* env.llm the outcome of the LLM request.                                 *)

SystemPrompt == <<"system_prompt">>
NoRequest == <<>>

CE_add_message(history, role, content, sources) ==
    Append(history, [role |-> role, content |-> content, sources |-> sources])

(* Citation showing the zero-based index *)
Mut_Citation_zero_based(chunk) ==
    <<chunk.metadata.filename, " (Sección ", chunk.metadata.chunk_index, ")">>

(* The f-string, as its parts: name, " (Sección ", number, ")" *)
Citation(chunk) ==
    <<chunk.metadata.filename, " (Sección ", chunk.metadata.chunk_index + 1, ")">>

CE_get_relevant_context(env) ==
    LET search_result == SE_search_documents(env.search1, env.search2)
    IN  IF search_result.raised THEN search_result
        ELSE Ok([context |-> search_result.value.answer,
                 sources |-> [i \in 1..Len(search_result.value.sources) |->
                                Citation(search_result.value.sources[i])]])

(* The external calls a call of generate_response makes, in order, each    *)
(* with the length the history has when it is made.                        *)
CallsMade(history, env) ==
    LET at(call) == [call |-> call, history_len |-> Len(history)]
    IN  IF env.search1.raised THEN <<at("search")>>
        ELSE IF env.search2.raised THEN <<at("search"), at("search")>>
        ELSE <<at("search"), at("search"), at("llm")>>

(* BuildRequest sending one message fewer than the window *)
Mut_BuildRequest_short_window(history, context, user_query) ==
    LET recent_history == LastN(history, HISTORY_WINDOW - 1)
        query_with_context ==
            IF context # <<>> /\ context # NoContextSentinel
            THEN [template |-> "with_context", context |-> context,
                  question |-> user_query]
            ELSE [template |-> "no_context", context |-> <<>>,
                  question |-> user_query]
    IN  [system |-> SystemPrompt,
         history |-> [i \in 1..Len(recent_history) |->
                        [type |-> IF recent_history[i].role = "user"
                                  THEN "human" ELSE "ai",
                         content |-> recent_history[i].content]],
         human |-> query_with_context]

(* BuildRequest handing the sentinel to the LLM as if it were context *)
Mut_BuildRequest_embeds_sentinel(history, context, user_query) ==
    LET recent_history == LastN(history, HISTORY_WINDOW)
        query_with_context ==
            IF context # <<>>
            THEN [template |-> "with_context", context |-> context,
                  question |-> user_query]
            ELSE [template |-> "no_context", context |-> <<>>,
                  question |-> user_query]
    IN  [system |-> SystemPrompt,
         history |-> [i \in 1..Len(recent_history) |->
                        [type |-> IF recent_history[i].role = "user"
                                  THEN "human" ELSE "ai",
                         content |-> recent_history[i].content]],
         human |-> query_with_context]

BuildRequest(history, context, user_query) ==
    LET recent_history == LastN(history, HISTORY_WINDOW)
        query_with_context ==
            IF context # <<>> /\ context # NoContextSentinel
            THEN [template |-> "with_context", context |-> context,
                  question |-> user_query]
            ELSE [template |-> "no_context", context |-> <<>>,
                  question |-> user_query]
    IN  [system |-> SystemPrompt,
         history |-> [i \in 1..Len(recent_history) |->
                        [type |-> IF recent_history[i].role = "user"
                                  THEN "human" ELSE "ai",
                         content |-> recent_history[i].content]],
         human |-> query_with_context]

(* CE_generate_response keeping the citations when the LLM request fails *)
Mut_generate_response_keeps_sources(history, user_query, env) ==
    LET found == CE_get_relevant_context(env)
        calls == CallsMade(history, env)
    IN  IF found.raised
        THEN [result |-> found, request |-> NoRequest, calls |-> calls]
        ELSE LET messages == BuildRequest(history, found.value.context, user_query)
             IN  IF env.llm.raised
                 THEN [result |-> Ok([response |-> <<"Error al generar respuesta: ">>
                                                   \o env.llm.message,
                                      sources |-> found.value.sources]),
                       request |-> messages, calls |-> calls]
                 ELSE [result |-> Ok([response |-> env.llm.value,
                                      sources |-> found.value.sources]),
                       request |-> messages, calls |-> calls]

CE_generate_response(history, user_query, env) ==
    LET found == CE_get_relevant_context(env)
        calls == CallsMade(history, env)
    IN  IF found.raised
        THEN [result |-> found, request |-> NoRequest, calls |-> calls]
        ELSE LET messages == BuildRequest(history, found.value.context, user_query)
             IN  IF env.llm.raised
                 THEN [result |-> Ok([response |-> <<"Error al generar respuesta: ">>
                                                   \o env.llm.message,
                                      sources |-> <<>>]),
                       request |-> messages, calls |-> calls]
                 ELSE [result |-> Ok([response |-> env.llm.value,
                                      sources |-> found.value.sources]),
                       request |-> messages, calls |-> calls]

(* CE_chat recording the question only once the response is there *)
Mut_chat_records_question_late(history, user_message, env) ==
    LET generated == CE_generate_response(history, user_message, env)
    IN  IF generated.result.raised
        THEN [history |-> history, result |-> generated.result,
              request |-> generated.request, calls |-> generated.calls]
        ELSE [history |-> CE_add_message(
                              CE_add_message(history, "user", user_message, <<>>),
                              "assistant", generated.result.value.response,
                              generated.result.value.sources),
              result |-> generated.result,
              request |-> generated.request, calls |-> generated.calls]

CE_chat(history, user_message, env) ==
    LET asked == CE_add_message(history, "user", user_message, <<>>)
        generated == CE_generate_response(asked, user_message, env)
    IN  IF generated.result.raised
        THEN [history |-> asked, result |-> generated.result,
              request |-> generated.request, calls |-> generated.calls]
        ELSE [history |-> CE_add_message(asked, "assistant",
                                         generated.result.value.response,
                                         generated.result.value.sources),
              result |-> generated.result,
              request |-> generated.request, calls |-> generated.calls]

(* The auxiliary operations: each makes a query of its own and hands it to *)
(* generate_response, keeping the response and dropping the citations.     *)
(* Each maps the engine's state to its state after the call, the result,   *)
(* and the external calls made.                                            *)
Answered(history, docs, query, env) ==
    LET generated == CE_generate_response(history, query, env)
    IN  [history |-> history, documents |-> docs,
         result |-> IF generated.result.raised THEN generated.result
                    ELSE Ok(generated.result.value.response),
         calls |-> generated.calls]

Refused(history, docs, message) ==
    [history |-> history, documents |-> docs, result |-> Ok(message), calls |-> <<>>]

Filenames(docs) == [i \in 1..Len(docs) |-> docs[i].filename]

(* document_id, an Optional[str]: <<>> for None, <<id>> for an id *)
CE_generate_document_summary(history, docs, document_id, env) ==
    IF document_id # <<>>
    THEN LET doc == DM_get_document(docs, document_id[1])
         IN  IF doc = None THEN Refused(history, docs, <<"Documento no encontrado.">>)
             ELSE Answered(history, docs,
                           <<"Resume el contenido del documento ", doc.filename>>, env)
    ELSE Answered(history, docs,
                  <<"Genera un resumen ejecutivo de todos los documentos cargados: ">>
                  \o Filenames(docs), env)

(* CE_compare_documents counting the ids given, not the documents found *)
Mut_compare_documents_counts_ids(history, docs, doc_ids, env) ==
    IF Len(doc_ids) < 2
    THEN Refused(history, docs, <<"Se necesitan al menos 2 documentos para comparar.">>)
    ELSE LET found == SelectSeq(doc_ids, LAMBDA id : DM_get_document(docs, id) # None)
             doc_names == [i \in 1..Len(found) |-> DM_get_document(docs, found[i]).filename]
         IN  Answered(history, docs,
                      <<"Compara los siguientes documentos e identifica similitudes y diferencias clave: ">>
                      \o doc_names, env)

CE_compare_documents(history, docs, doc_ids, env) ==
    IF Len(doc_ids) < 2
    THEN Refused(history, docs, <<"Se necesitan al menos 2 documentos para comparar.">>)
    ELSE LET found == SelectSeq(doc_ids, LAMBDA id : DM_get_document(docs, id) # None)
             doc_names == [i \in 1..Len(found) |-> DM_get_document(docs, found[i]).filename]
         IN  IF Len(doc_names) < 2
             THEN Refused(history, docs,
                          <<"No se encontraron suficientes documentos válidos para comparar.">>)
             ELSE Answered(history, docs,
                           <<"Compara los siguientes documentos e identifica similitudes y diferencias clave: ">>
                           \o doc_names, env)

TopicsQuery ==
    <<"Identifica y lista los temas principales tratados en todos los documentos cargados, organizándolos por relevancia.">>

(* CE_extract_topics asking its query as a chat turn *)
Mut_extract_topics_through_chat(history, docs, env) ==
    LET turn == CE_chat(history, TopicsQuery, env)
    IN  [history |-> turn.history, documents |-> docs,
         result |-> IF turn.result.raised THEN turn.result
                    ELSE Ok(turn.result.value.response),
         calls |-> turn.calls]

CE_extract_topics(history, docs, env) == Answered(history, docs, TopicsQuery, env)

(* fail_at: the position of the document whose embedding request fails,    *)
(* 0 when none does.  The loop stops at the first exception.               *)
RECURSIVE IndexFrom(_, _, _, _)
IndexFrom(coll, docs, i, fail_at) ==
    IF i > Len(docs) THEN [collection |-> coll, result |-> Ok("None")]
    ELSE LET added == VS_add_chunks(coll, create_chunks(docs[i]), i # fail_at)
         IN  IF added.result.raised THEN added
             ELSE IndexFrom(added.collection, docs, i + 1, fail_at)

CE_add_documents(coll, docs, fail_at) ==
    LET indexed == IndexFrom(coll, docs, 1, fail_at)
    IN  [documents |-> docs, collection |-> indexed.collection,
         result |-> indexed.result]

CE_clear_conversation(history) == <<>>

CE_get_conversation_summary(history, docs) ==
    [total_messages |-> Len(history),
     user_messages |-> Len(SelectSeq(history, LAMBDA m : m.role = "user")),
     assistant_messages |-> Len(SelectSeq(history, LAMBDA m : m.role = "assistant")),
     documents_loaded |-> Len(docs),
     document_names |-> [i \in 1..Len(docs) |-> docs[i].filename]]

(* The questions asked, and what the outside world can do during a turn.   *)
(* A conversation asks Question at every turn: its turns differ by what    *)
(* the searches and the LLM do.                                            *)
Queries == {<<"q1">>, <<"q2">>}
Question == <<"q1">>
LLMOutcomes == {Ok(<<"answer">>), Raise("GenerationError", <<"timeout">>)}

NotReached == Raise("NotReached", <<>>)

Envs(coll, query) ==
    LET searches == VS_search(coll, query, MAX_CHUNKS, None)
        failed == {r \in searches : r.raised}
        found == searches \ failed
    IN  [search1 : failed, search2 : {NotReached}, llm : {NotReached}]
        \cup [search1 : found, search2 : failed, llm : {NotReached}]
        \cup [search1 : found, search2 : found, llm : LLMOutcomes]

---------------------------------------------------------------------------
Init ==
    /\ documents = <<>>
    /\ eng_documents = <<>>
    /\ conversation_history = <<>>
    /\ collection = EmptyBag
    /\ documents_processed = FALSE
    /\ next_uuid = 1
    /\ last = [op |-> "init"]

---------------------------------------------------------------------------
(* The DocumentManager interface, called directly *)

AddDocument(file) ==
    /\ Len(documents) >= MAX_FILES \/ next_uuid <= MaxUuid
    /\ LET r == DM_add_document(documents, file, file.filename, next_uuid)
       IN  /\ documents' = r.documents
           /\ next_uuid' = IF r.result.raised THEN next_uuid ELSE next_uuid + 1
           /\ last' = [op |-> "add_document", result |-> r.result]
    /\ UNCHANGED <<eng_documents, conversation_history, collection, documents_processed>>

RemoveDocument(doc_id) ==
    /\ LET r == DM_remove_document(documents, doc_id)
       IN  /\ documents' = r.documents
           /\ last' = [op |-> "remove_document", doc_id |-> doc_id,
                       result |-> r.result,
                       get_document |-> DM_get_document(r.documents, doc_id),
                       list_documents |-> DM_list_documents(r.documents)]
    /\ UNCHANGED <<eng_documents, conversation_history, collection,
                   documents_processed, next_uuid>>

ClearDocuments ==
    /\ documents' = DM_clear_documents(documents)
    /\ last' = [op |-> "clear_documents"]
    /\ UNCHANGED <<eng_documents, conversation_history, collection,
                   documents_processed, next_uuid>>

(* document_manager.processor.create_chunks on a document of the list *)
CreateChunks(i) ==
    /\ last' = [op |-> "create_chunks", document |-> documents[i],
                chunks |-> create_chunks(documents[i])]
    /\ UNCHANGED <<documents, eng_documents, conversation_history, collection,
                   documents_processed, next_uuid>>

NextManager ==
    \/ \E file \in Files : AddDocument(file)
    \/ \E doc_id \in 1..MaxUuid : RemoveDocument(doc_id)
    \/ ClearDocuments
    \/ \E i \in 1..Len(documents) : CreateChunks(i)

SpecManager == Init /\ [][NextManager]_vars

---------------------------------------------------------------------------
(* The DocumentProcessor interface, called directly and through            *)
(* add_document                                                            *)

(* PDF files by what the two libraries make of them: nothing, no text, a   *)
(* text of just 100 characters, a longer text                              *)
PdfFiles ==
    [filename : {"x.pdf"}, size_ok : {TRUE}, open_ok : BOOLEAN,
     primary : {Unreadable, Read(<<>>), Read(<<31>>), Read(TextB)},
     secondary : {Unreadable, Read(<<>>), Read(<<41, 42>>)}]

KeywordTexts == SeqsUpTo(51..55, MaxTokens)

ProcessPdf(file) ==
    /\ last' = [op |-> "process_pdf", file |-> file, result |-> process_pdf(file),
                calls |-> PdfCallsMade(file)]
    /\ UNCHANGED <<documents, eng_documents, conversation_history, collection,
                   documents_processed, next_uuid>>

ExtractKeywords(text, max_keywords) ==
    /\ last' = [op |-> "extract_keywords", text |-> text,
                max_keywords |-> max_keywords,
                result |-> extract_keywords(text, max_keywords)]
    /\ UNCHANGED <<documents, eng_documents, conversation_history, collection,
                   documents_processed, next_uuid>>

(* The processor keeps no state between calls: its operations are called  *)
(* on a new manager, and add_document on a manager that has room.          *)
NextProcessor ==
    \/ documents = <<>> /\ \E file \in PdfFiles : ProcessPdf(file)
    \/ documents = <<>> /\ \E text \in KeywordTexts, max_keywords \in 0..2 :
          ExtractKeywords(text, max_keywords)
    \/ Len(documents) < MaxManaged /\ \E file \in Files : AddDocument(file)

SpecProcessor == Init /\ [][NextProcessor]_vars

---------------------------------------------------------------------------
(* The VectorStore / SemanticSearchEngine interface, called directly *)

SampleDocuments ==
    {create_document(f, f.filename, u).value :
        f \in {FileA, FileB, FileEmpty}, u \in 1..2}

SampleChunkLists ==
    LET whole == {create_chunks(d) : d \in SampleDocuments}
    IN  whole \cup {<<c>> : c \in UNION {Range(w) : w \in whole}}

IndexChunks(chunks, embed_ok) ==
    /\ BagCardinality(collection) + Len(chunks) <= MaxStored
    /\ LET r == VS_add_chunks(collection, chunks, embed_ok)
       IN  /\ collection' = r.collection
           /\ last' = [op |-> "index_chunks", chunks |-> chunks, result |-> r.result]
    /\ UNCHANGED <<documents, eng_documents, conversation_history,
                   documents_processed, next_uuid>>

RemoveDocumentIndex(document_id) ==
    /\ collection' = VS_remove_document(collection, document_id)
    /\ last' = [op |-> "remove_document_index", document_id |-> document_id]
    /\ UNCHANGED <<documents, eng_documents, conversation_history,
                   documents_processed, next_uuid>>

ClearIndex ==
    /\ collection' = VS_clear_all(collection)
    /\ last' = [op |-> "clear_index"]
    /\ UNCHANGED <<documents, eng_documents, conversation_history,
                   documents_processed, next_uuid>>

(* The arguments the searches are called with *)
MinScores == {MIN_SCORE, 8, 10}
MaxChunksGiven == {2, MAX_CHUNKS}
DocumentIdLists == {<<>>, <<1>>}

(* VectorStore.get_relevant_context(query, max_chunks, min_score); found   *)
(* is what its call of search does.                                        *)
GetRelevantContext(query, max_chunks, min_score, found) ==
    /\ last' = [op |-> "get_relevant_context", query |-> query,
                max_chunks |-> max_chunks, min_score |-> min_score,
                found |-> found,
                result |-> IF found.raised THEN found
                           ELSE Ok(VS_get_relevant_context(found.value, min_score))]
    /\ UNCHANGED <<documents, eng_documents, conversation_history, collection,
                   documents_processed, next_uuid>>

search_filter(document_ids) ==
    IF document_ids # <<>> THEN [document_ids |-> Range(document_ids)] ELSE None

(* SemanticSearchEngine.search_documents(query, document_ids, max_results) *)
SearchDocuments(query, document_ids, max_results, search1, search2) ==
    /\ last' = [op |-> "search_documents", query |-> query,
                document_ids |-> document_ids, max_results |-> max_results,
                search1 |-> search1, search2 |-> search2,
                result |-> SE_search_documents(search1, search2)]
    /\ UNCHANGED <<documents, eng_documents, conversation_history, collection,
                   documents_processed, next_uuid>>

NextStore ==
    \/ \E chunks \in SampleChunkLists, embed_ok \in BOOLEAN : IndexChunks(chunks, embed_ok)
    \/ \E document_id \in 1..2 : RemoveDocumentIndex(document_id)
    \/ ClearIndex
    \/ \E query \in Queries, max_chunks \in MaxChunksGiven, min_score \in MinScores :
          \E found \in VS_search(collection, query, max_chunks, None) :
             GetRelevantContext(query, max_chunks, min_score, found)
    \/ \E query \in Queries, document_ids \in DocumentIdLists,
          max_results \in MaxChunksGiven :
          \E search1 \in VS_search(collection, query, max_results,
                                   search_filter(document_ids)) :
             \E search2 \in IF search1.raised THEN {NotReached}
                             ELSE VS_search(collection, query, max_results, None) :
                SearchDocuments(query, document_ids, max_results, search1, search2)

SpecStore == Init /\ [][NextStore]_vars

---------------------------------------------------------------------------
(* The ConversationEngine interface, called directly *)

SampleDocumentLists ==
    {<<>>,
     <<create_document(FileA, "a.txt", 1).value>>,
     <<create_document(FileB, "b.PDF", 2).value,
       create_document(FileA, "a.txt", 1).value>>,
     <<create_document(FileEmpty, "e.txt", 3).value>>}

StoredBy(docs) == Len(Flatten([i \in 1..Len(docs) |-> create_chunks(docs[i])]))

AddDocuments(docs, fail_at) ==
    /\ BagCardinality(collection) + StoredBy(docs) <= MaxStored
    /\ LET r == CE_add_documents(collection, docs, fail_at)
       IN  /\ eng_documents' = r.documents
           /\ collection' = r.collection
           /\ last' = [op |-> "add_documents", docs |-> docs,
                       fail_at |-> fail_at, result |-> r.result]
    /\ UNCHANGED <<documents, conversation_history, documents_processed, next_uuid>>

Chat(user_message, env) ==
    /\ Len(conversation_history) + 2 <= MaxHistory
    /\ LET r == CE_chat(conversation_history, user_message, env)
       IN  /\ conversation_history' = r.history
           /\ last' = [op |-> "chat", message |-> user_message, env |-> env,
                       before |-> Len(conversation_history),
                       result |-> r.result, request |-> r.request,
                       calls |-> r.calls]
    /\ UNCHANGED <<documents, eng_documents, collection, documents_processed,
                   next_uuid>>

ClearConversation ==
    /\ conversation_history' = CE_clear_conversation(conversation_history)
    /\ last' = [op |-> "clear_conversation"]
    /\ UNCHANGED <<documents, eng_documents, collection, documents_processed,
                   next_uuid>>

(* An auxiliary operation that has returned r *)
Auxiliary(r, called) ==
    /\ conversation_history' = r.history
    /\ eng_documents' = r.documents
    /\ last' = called @@ [result |-> r.result, calls |-> r.calls]
    /\ UNCHANGED <<documents, collection, documents_processed, next_uuid>>

GenerateDocumentSummary(document_id, env) ==
    Auxiliary(CE_generate_document_summary(conversation_history, eng_documents,
                                           document_id, env),
              [op |-> "generate_document_summary", document_id |-> document_id])

CompareDocuments(doc_ids, env) ==
    Auxiliary(CE_compare_documents(conversation_history, eng_documents, doc_ids, env),
              [op |-> "compare_documents", doc_ids |-> doc_ids])

ExtractTopics(env) ==
    Auxiliary(CE_extract_topics(conversation_history, eng_documents, env),
              [op |-> "extract_topics"])

(* The ids the auxiliary operations are given: 0 is the id of no document *)
SummaryIds == {<<>>, <<1>>, <<0>>}
CompareIdLists == {<<>>, <<1>>, <<1, 0>>, <<2, 1>>}

(* The outside world during an auxiliary operation.  Its queries are all   *)
(* as far from the stored texts as the second question is.                 *)
AuxiliaryEnvs == Envs(collection, <<"q2">>)

NextEngine ==
    \/ \E docs \in SampleDocumentLists, fail_at \in 0..2 :
          fail_at <= Len(docs) /\ AddDocuments(docs, fail_at)
    \/ \E env \in Envs(collection, Question) : Chat(Question, env)
    \/ ClearConversation

SpecEngine == Init /\ [][NextEngine]_vars

(* The auxiliary operations, called between the turns of short             *)
(* conversations                                                           *)
NextAuxiliary ==
    \/ \E docs \in SampleDocumentLists, fail_at \in 0..2 :
          fail_at <= Len(docs) /\ AddDocuments(docs, fail_at)
    \/ /\ Len(conversation_history) + 2 <= 2 * MaxTurns
       /\ \E env \in Envs(collection, Question) : Chat(Question, env)
    \/ \E document_id \in SummaryIds, env \in AuxiliaryEnvs :
          GenerateDocumentSummary(document_id, env)
    \/ \E doc_ids \in CompareIdLists, env \in AuxiliaryEnvs :
          CompareDocuments(doc_ids, env)
    \/ \E env \in AuxiliaryEnvs : ExtractTopics(env)

SpecAuxiliary == Init /\ [][NextAuxiliary]_vars

---------------------------------------------------------------------------
(* The front end's handlers (frontend/app.py) over one session *)

validate_file(file) ==
    /\ Lower(Suffix(file.filename)) \in {".pdf", ".txt"}
    /\ file.size_ok

(* ProcessFiles giving up the batch at the first file that raises *)
RECURSIVE Mut_ProcessFiles_stops_at_error(_, _, _, _, _, _)
Mut_ProcessFiles_stops_at_error(docs, uploaded_files, i, uuid, added, reports) ==
    IF i > Len(uploaded_files)
    THEN [documents |-> docs, added |-> added, uuid |-> uuid, reports |-> reports]
    ELSE IF ~validate_file(uploaded_files[i])
         THEN Mut_ProcessFiles_stops_at_error(docs, uploaded_files, i + 1, uuid, added,
                                              Append(reports, "rejected"))
    ELSE LET r == DM_add_document(docs, uploaded_files[i],
                                  uploaded_files[i].filename, uuid)
         IN  IF r.result.raised
             THEN [documents |-> docs, added |-> added, uuid |-> uuid,
                   reports |-> Append(reports, "error")
                               \o [k \in 1..(Len(uploaded_files) - i) |-> "error"]]
             ELSE Mut_ProcessFiles_stops_at_error(r.documents, uploaded_files, i + 1,
                                                  uuid + 1,
                                                  Append(added, r.result.value),
                                                  Append(reports, "processed"))

(* The loop of process_uploaded_files over the batch: the manager's list,  *)
(* the documents added so far, the next uuid and one report per file.      *)
RECURSIVE ProcessFiles(_, _, _, _, _, _)
ProcessFiles(docs, uploaded_files, i, uuid, added, reports) ==
    IF i > Len(uploaded_files)
    THEN [documents |-> docs, added |-> added, uuid |-> uuid, reports |-> reports]
    ELSE IF ~validate_file(uploaded_files[i])
         THEN ProcessFiles(docs, uploaded_files, i + 1, uuid, added,
                           Append(reports, "rejected"))
    ELSE LET r == DM_add_document(docs, uploaded_files[i],
                                  uploaded_files[i].filename, uuid)
         IN  IF r.result.raised
             THEN ProcessFiles(docs, uploaded_files, i + 1, uuid, added,
                               Append(reports, "error"))
             ELSE ProcessFiles(r.documents, uploaded_files, i + 1, uuid + 1,
                               Append(added, r.result.value),
                               Append(reports, "processed"))

(* fail_at, here and below: the position, among the documents handed to    *)
(* add_documents, of the one whose embedding request fails; 0 when none.   *)
ProcessUploadedFiles(uploaded_files) ==
    IF Len(uploaded_files) > MAX_FILES
    THEN /\ last' = [op |-> "process_uploaded_files", files |-> uploaded_files,
                     result |-> Ok("too many files"), reports |-> <<>>]
         /\ UNCHANGED <<documents, eng_documents, conversation_history, collection,
                        documents_processed, next_uuid>>
    ELSE LET p == ProcessFiles(DM_clear_documents(documents), uploaded_files, 1,
                               next_uuid, <<>>, <<>>)
         IN  /\ p.uuid - 1 <= MaxUploaded
             /\ BagCardinality(collection) + StoredBy(p.added) <= MaxIndexed
             /\ documents' = p.documents
             /\ next_uuid' = p.uuid
             /\ conversation_history' = CE_clear_conversation(conversation_history)
             /\ IF p.added # <<>>
                THEN \E fail_at \in 0..Len(p.added) :
                     LET r == CE_add_documents(collection, p.added, fail_at)
                     IN  /\ eng_documents' = r.documents
                         /\ collection' = r.collection
                         /\ documents_processed' =
                                IF r.result.raised THEN documents_processed ELSE TRUE
                         /\ last' = [op |-> "process_uploaded_files",
                                     files |-> uploaded_files,
                                     result |-> r.result, reports |-> p.reports]
                ELSE /\ last' = [op |-> "process_uploaded_files",
                                 files |-> uploaded_files,
                                 result |-> Ok("None"), reports |-> p.reports]
                     /\ UNCHANGED <<eng_documents, collection, documents_processed>>

AppRemoveDocument(doc_id) ==
    LET removed == DM_remove_document(documents, doc_id)
        remaining_docs == DM_list_documents(removed.documents)
    IN  /\ documents' = removed.documents
        /\ UNCHANGED next_uuid
        /\ IF removed.result
           THEN /\ conversation_history' = CE_clear_conversation(conversation_history)
                /\ IF remaining_docs # <<>>
                   THEN /\ BagCardinality(collection) + StoredBy(remaining_docs)
                               <= MaxIndexed
                        /\ \E fail_at \in 0..Len(remaining_docs) :
                           LET r == CE_add_documents(collection, remaining_docs, fail_at)
                           IN  /\ eng_documents' = r.documents
                               /\ collection' = r.collection
                               /\ last' = [op |-> "remove_document", doc_id |-> doc_id,
                                           removed |-> TRUE, result |-> r.result]
                        /\ UNCHANGED documents_processed
                   ELSE /\ documents_processed' = FALSE
                        /\ last' = [op |-> "remove_document", doc_id |-> doc_id,
                                    removed |-> TRUE, result |-> Ok("None")]
                        /\ UNCHANGED <<eng_documents, collection>>
           ELSE /\ last' = [op |-> "remove_document", doc_id |-> doc_id,
                            removed |-> FALSE, result |-> Ok("None")]
                /\ UNCHANGED <<eng_documents, conversation_history, collection,
                               documents_processed>>

ClearAllDocuments ==
    /\ documents' = DM_clear_documents(documents)
    /\ conversation_history' = CE_clear_conversation(conversation_history)
    /\ documents_processed' = FALSE
    /\ last' = [op |-> "clear_all_documents"]
    /\ UNCHANGED <<eng_documents, collection, next_uuid>>

(* process_user_message: the chat turn, any exception caught and shown *)
ProcessUserMessage(user_message, env) ==
    /\ Len(conversation_history) + 2 <= 2 * MaxTurns
    /\ LET r == CE_chat(conversation_history, user_message, env)
       IN  /\ conversation_history' = r.history
           /\ last' = [op |-> "process_user_message", message |-> user_message,
                       env |-> env, before |-> Len(conversation_history),
                       result |-> r.result, request |-> r.request,
                       calls |-> r.calls]
    /\ UNCHANGED <<documents, eng_documents, collection, documents_processed,
                   next_uuid>>

TooManyFiles == [i \in 1..(MAX_FILES + 1) |-> FileA]

(* What the page offers: the uploader, a delete button per listed          *)
(* document, "clear all" while documents are listed, and the chat once     *)
(* documents have been processed.                                          *)
Next ==
    \/ \E uploaded_files \in SeqsUpTo(UploadFiles, MaxBatch) \ {<<>>} :
          ProcessUploadedFiles(uploaded_files)
    \/ ProcessUploadedFiles(TooManyFiles)
    \/ \E i \in 1..Len(documents) : AppRemoveDocument(documents[i].id)
    \/ documents # <<>> /\ ClearAllDocuments
    \/ documents_processed /\ \E env \in Envs(collection, Question) :
          ProcessUserMessage(Question, env)

Spec == Init /\ [][Next]_vars

---------------------------------------------------------------------------
(* Properties *)

IsPrefix(s, t) == Len(s) <= Len(t) /\ SubSeq(t, 1, Len(s)) = s

IsChat == last.op = "chat"
RetrievalFailed == last.env.search1.raised \/ last.env.search2.raised
LLMFailed == ~RetrievalFailed /\ last.env.llm.raised

UserEntry(content) == [role |-> "user", content |-> content, sources |-> <<>>]

(* C1: chat never raises: whatever the searches and the LLM do, it returns *)
(* an answer and a citation list, and when a search failed the citation    *)
(* list is empty.                                                          *)
C1_ChatNeverRaises ==
    IsChat =>
        /\ ~last.result.raised
        /\ RetrievalFailed => last.result.value.sources = <<>>

(* C2: when the LLM request fails after a successful retrieval, chat       *)
(* returns the error text with the cause and no citations, raises nothing, *)
(* and the history ends with the user message and an assistant message     *)
(* carrying that error text and no citations.                              *)
C2_LLMFailureContained ==
    (IsChat /\ LLMFailed) =>
        /\ ~last.result.raised
        /\ last.result.value.response =
               <<"Error al generar respuesta: ">> \o last.env.llm.message
        /\ last.result.value.sources = <<>>
        /\ Len(conversation_history) = last.before + 2
        /\ conversation_history[last.before + 1] = UserEntry(last.message)
        /\ conversation_history[last.before + 2] =
               [role |-> "assistant",
                content |-> <<"Error al generar respuesta: ">> \o last.env.llm.message,
                sources |-> <<>>]

(* a turn whose LLM request failed although the search had found chunks    *)
C2_Witness ==
    /\ IsChat /\ LLMFailed
    /\ last.env.search1.value # <<>>
    /\ last.before > 0

(* C3: in every outcome of chat(m) the history holds a user entry with     *)
(* content m, appended before the first search or LLM request of the call  *)
(* and still there when the call ends.                                     *)
C3_QuestionAlwaysRecorded ==
    IsChat =>
        /\ Len(conversation_history) > last.before
        /\ conversation_history[last.before + 1] = UserEntry(last.message)
        /\ \A i \in 1..Len(last.calls) : last.calls[i].history_len > last.before

(* a turn that ended in an exception, after its first search was made      *)
C3_Witness ==
    /\ IsChat
    /\ last.result.raised
    /\ Len(last.calls) > 0
    /\ last.before > 0

(* C4: a request built over a history of more than 6 messages carries      *)
(* exactly the 6 most recent of them, in order; a chat turn removes and     *)
(* alters no entry of the history, and total_messages counts them all.     *)
C4_HistoryWindow ==
    [][(last'.op = "chat" /\ conversation_history' # conversation_history) =>
         LET built == Append(conversation_history, UserEntry(last'.message))
             n == Len(built)
         IN  /\ IsPrefix(built, conversation_history')
             /\ CE_get_conversation_summary(conversation_history',
                                            eng_documents').total_messages
                  = Len(conversation_history)
                    + (IF last'.result.raised THEN 1 ELSE 2)
             /\ (last'.request # NoRequest /\ n > 6) =>
                   last'.request.history =
                       [i \in 1..6 |->
                          [type |-> IF built[n - 6 + i].role = "user"
                                    THEN "human" ELSE "ai",
                           content |-> built[n - 6 + i].content]]
      ]_vars

(* a request built over 7 or more messages *)
C4_Witness ==
    /\ IsChat
    /\ last.request # NoRequest
    /\ last.before + 1 > 6

(* C5: add_document on a manager holding MAX_FILES documents raises a      *)
(* ValueError and leaves the list as it was; the list never holds more     *)
(* than MAX_FILES documents.                                               *)
C5_DocumentLimit ==
    [][/\ Len(documents') <= MAX_FILES
       /\ (last'.op = "add_document" /\ Len(documents) >= MAX_FILES) =>
             /\ last'.result.raised
             /\ last'.result.kind = "ValueError"
             /\ documents' = documents
      ]_vars

(* add_document refused on a full manager *)
C5_Witness ==
    /\ last.op = "add_document"
    /\ last.result.raised
    /\ last.result.message = <<"Maximum number of files exceeded">>
    /\ Len(documents) = MAX_FILES

Ids(docs) == {docs[i].id : i \in 1..Len(docs)}

(* C6: remove_document(id) with id in the list returns true, leaves the    *)
(* other documents in their order, and get_document and list_documents no  *)
(* longer return the document; with id not in the list it returns false    *)
(* and changes nothing.                                                    *)
C6_RemoveDocument ==
    [][last'.op = "remove_document" =>
         IF last'.doc_id \in Ids(documents)
         THEN /\ last'.result = TRUE
              /\ last'.get_document = None
              /\ last'.doc_id \notin Ids(last'.list_documents)
              /\ documents' = SelectSeq(documents, LAMBDA d : d.id # last'.doc_id)
         ELSE /\ last'.result = FALSE
              /\ documents' = documents
      ]_vars

(* a document removed from between two others *)
C6_Witness ==
    /\ last.op = "remove_document"
    /\ last.result = TRUE
    /\ \E i, j \in 1..Len(documents) :
          documents[i].id < last.doc_id /\ last.doc_id < documents[j].id

(* C7: once the front end has removed a document, the collection holds no  *)
(* entry of that document.                                                 *)
C7_RemovedDocumentLeavesIndex ==
    (last.op = "remove_document" /\ last.removed) =>
        \A e \in BagToSet(collection) : e.metadata.document_id # last.doc_id

(* C8: after "clear all" the document list is empty, the history is empty  *)
(* and the collection holds no entry.                                      *)
C8_ClearAllEmptiesEverything ==
    last.op = "clear_all_documents" =>
        /\ documents = <<>>
        /\ conversation_history = <<>>
        /\ VS_get_stats(collection).total_chunks = 0

ChunksOf(docs) ==
    SeqToBag(LET chunks == Flatten([i \in 1..Len(docs) |-> create_chunks(docs[i])])
             IN  [i \in 1..Len(chunks) |-> Entry(chunks[i])])

ActiveSetChanged ==
    \/ last.op = "clear_all_documents"
    \/ last.op = "remove_document" /\ last.removed /\ ~last.result.raised
    \/ /\ last.op = "process_uploaded_files"
       /\ ~last.result.raised
       /\ last.reports # <<>>

(* C9: after an upload, a removal or "clear all" that went through, the    *)
(* collection holds exactly the chunks of the active documents, each once. *)
C9_IndexRebuiltFromScratch ==
    ActiveSetChanged => collection = ChunksOf(documents)

(* C10: the collection never holds two entries with the same chunk id.     *)
C10_AddChunksIdempotent ==
    \A e \in BagToSet(collection) :
        /\ CopiesIn(e, collection) = 1
        /\ \A f \in BagToSet(collection) :
              f.metadata.chunk_id = e.metadata.chunk_id => f = e

---------------------------------------------------------------------------
(* Searches (SpecStore) *)

IsContext == last.op = "get_relevant_context" /\ ~last.found.raised
IsSearch == last.op = "search_documents" /\ ~last.result.raised

Min(a, b) == IF a <= b THEN a ELSE b

(* The sections of an assembled context: its parts between delimiters *)
RECURSIVE Sections(_)
Sections(context) ==
    IF context = NoContextSentinel THEN <<>>
    ELSE LET cuts == {i \in 1..Len(context) : <<context[i]>> = SectionDelimiter}
         IN  IF cuts = {} THEN <<context>>
             ELSE LET c == CHOOSE i \in cuts : \A j \in cuts : i <= j
                  IN  <<SubSeq(context, 1, c - 1)>>
                      \o Sections(SubSeq(context, c + 1, Len(context)))

Texts(results) == [i \in 1..Len(results) |-> results[i].doc.page_content]

(* results is a list of the k nearest entries of coll, nearest first *)
IsTopK(results, coll, query, k) ==
    LET found == SeqToBag([i \in 1..Len(results) |-> results[i].doc])
    IN  /\ Len(results) = Min(k, BagCardinality(coll))
        /\ found \sqsubseteq coll
        /\ \A i \in 1..Len(results) :
              /\ results[i].score = Distance(query, results[i].doc.page_content)
              /\ \A j \in i..Len(results) : results[i].score <= results[j].score
        /\ \A e \in BagToSet(coll) :
              CopiesIn(e, found) < CopiesIn(e, coll) =>
                  \A i \in 1..Len(results) :
                      results[i].score <= Distance(query, e.page_content)

(* C11: the context of a search is the text of the top-k chunks whose      *)
(* similarity 1 - distance is at least the threshold, most similar first,  *)
(* joined by the section delimiter; it is the sentinel when none passes.   *)
C11_AssembledContext ==
    IsContext =>
        LET results == last.found.value
            context == last.result.value
            passing == {i \in 1..Len(results) : 10 - results[i].score >= last.min_score}
        IN  /\ IsTopK(results, collection, last.query, last.max_chunks)
            /\ (passing = {}) = (context = NoContextSentinel)
            /\ Len(Sections(context)) = Cardinality(passing)
            /\ \A n \in 1..Len(Sections(context)) :
                  \E i \in passing :
                      /\ Cardinality({j \in passing : j <= i}) = n
                      /\ Sections(context)[n] = results[i].doc.page_content
            /\ \A m, n \in 1..Len(Sections(context)) :
                  m <= n => Distance(last.query, Sections(context)[m])
                              <= Distance(last.query, Sections(context)[n])

(* a context of two sections, one of them exactly at the threshold, taken  *)
(* from a collection that holds a third chunk below it                     *)
C11_Witness ==
    /\ IsContext
    /\ last.min_score = MIN_SCORE
    /\ Len(Sections(last.result.value)) = 2
    /\ \E i \in 1..Len(last.found.value) :
          10 - last.found.value[i].score = MIN_SCORE
    /\ BagCardinality(collection) > Len(last.found.value)

(* C12: of two calls with the same query over the same collection, the one *)
(* with the higher threshold includes a sub-collection of the chunks the   *)
(* other includes.                                                         *)
C12_ThresholdMonotone ==
    [][(/\ last.op = "get_relevant_context" /\ ~last.found.raised
        /\ last'.op = "get_relevant_context" /\ ~last'.found.raised
        /\ last'.query = last.query
        /\ last'.max_chunks = last.max_chunks
        /\ last.min_score <= last'.min_score) =>
           /\ SeqToBag(Sections(last'.result.value))
                  \sqsubseteq SeqToBag(Sections(last.result.value))
           /\ Len(Sections(last'.result.value)) <= Len(Sections(last.result.value))
      ]_vars

(* a call above the default threshold that includes some chunks, and fewer *)
(* than the default threshold includes                                     *)
C12_Witness ==
    /\ IsContext
    /\ last.min_score > MIN_SCORE
    /\ Len(Sections(last.result.value)) > 0
    /\ Len(Sections(last.result.value))
          < Cardinality({i \in 1..Len(last.found.value) :
                           10 - last.found.value[i].score >= MIN_SCORE})

RECURSIVE TotalDistance(_, _)
TotalDistance(results, n) ==
    IF n = 0 THEN 0 ELSE TotalDistance(results, n - 1) + results[n].score

(* C13: confidence is max(0, 1 - mean distance) over all results of the    *)
(* search, filtered or not; 0 for an empty result; always within [0, 1].   *)
C13_Confidence ==
    IsSearch =>
        LET results == last.search1.value
            n == Len(results)
            confidence == last.result.value.confidence
        IN  /\ confidence.den > 0
            /\ 0 <= confidence.num /\ confidence.num <= confidence.den
            /\ IF n = 0 THEN confidence.num = 0
               ELSE confidence.num * (10 * n)
                      = confidence.den
                        * (IF 10 * n - TotalDistance(results, n) > 0
                           THEN 10 * n - TotalDistance(results, n) ELSE 0)

(* a search whose results all fail the threshold: the answer is the        *)
(* sentinel and the confidence is above 0                                  *)
C13_Witness ==
    /\ IsSearch
    /\ last.search1.value # <<>>
    /\ last.result.value.answer = NoContextSentinel
    /\ last.result.value.confidence.num > 0

(* C14: every chunk in the sources of a search passed the threshold, and   *)
(* the sources are empty when the answer is the sentinel.                  *)
C14_SourcesPassedFilter ==
    IsSearch =>
        /\ \A i \in 1..Len(last.result.value.sources) :
              10 - Distance(last.query, last.result.value.sources[i].content)
                  >= MIN_SCORE
        /\ last.result.value.answer = NoContextSentinel =>
              last.result.value.sources = <<>>

---------------------------------------------------------------------------
(* Citations and indexing (SpecEngine) *)

(* C15: the citations of a turn are one per source chunk, in the order of  *)
(* the sources, each the file name followed by " (Sección i+1)" for the    *)
(* zero-based chunk_index i.                                               *)
C15_CitationFormat ==
    (IsChat /\ ~last.result.raised /\ ~LLMFailed) =>
        LET sources == SE_search_documents(last.env.search1, last.env.search2).value.sources
            cited == last.result.value.sources
        IN  /\ Len(cited) = Len(sources)
            /\ \A n \in 1..Len(sources) :
                  \E f \in {"a.txt", "b.PDF", "e.txt"}, i \in 0..MaxStored :
                      /\ sources[n].metadata.filename = f
                      /\ sources[n].metadata.chunk_index = i
                      /\ cited[n] = <<f, " (Sección ", i + 1, ")">>

(* a turn citing the second chunk of a.txt after another chunk *)
C15_Witness ==
    /\ IsChat /\ ~last.result.raised
    /\ Len(last.result.value.sources) >= 2
    /\ \E n \in 2..Len(last.result.value.sources) :
          last.result.value.sources[n] = <<"a.txt", " (Sección ", 2, ")">>

EmptyContent(docs) == docs # <<>> /\ \A i \in 1..Len(docs) : docs[i].content = <<>>

(* C17: adding documents whose content is empty raises nothing and leaves  *)
(* the collection as it was, whether or not the embedding service would    *)
(* answer: no chunk is made and the store is not called.                   *)
C17_EmptyContentNoOp ==
    [][(last'.op = "add_documents" /\ EmptyContent(last'.docs)) =>
          /\ ~last'.result.raised
          /\ collection' = collection
      ]_vars

(* an empty document added to a collection that holds chunks, while the    *)
(* embedding service is down                                               *)
C17_Witness ==
    /\ last.op = "add_documents"
    /\ EmptyContent(last.docs)
    /\ last.fail_at = 1
    /\ collection # EmptyBag

(* C19: after add_documents, every document of the batch other than the    *)
(* one whose indexing failed has its chunks in the collection.             *)
C19_IndexingPartialSuccess ==
    last.op = "add_documents" =>
        \A i \in 1..Len(last.docs) :
            i # last.fail_at =>
                \A n \in 1..Len(create_chunks(last.docs[i])) :
                    CopiesIn(Entry(create_chunks(last.docs[i])[n]), collection) > 0

---------------------------------------------------------------------------
(* Chunking and extraction (SpecManager) *)

(* C16: the chunks of a document carry chunk_index 0..n-1 in order, all    *)
(* record total_chunks = n, all carry the document's id, as field and in   *)
(* the metadata, none is empty, and the id of chunk i is made of the       *)
(* document's id and i.                                                    *)
C16_ChunkNumbering ==
    last.op = "create_chunks" =>
        LET chunks == last.chunks
            n == Len(chunks)
        IN  \A i \in 1..n :
               /\ chunks[i].metadata.chunk_index = i - 1
               /\ chunks[i].metadata.total_chunks = n
               /\ chunks[i].document_id = last.document.id
               /\ chunks[i].metadata.document_id = last.document.id
               /\ chunks[i].content # <<>>
               /\ chunks[i].id = <<last.document.id, i - 1>>

(* a document cut into two chunks or more *)
C16_Witness ==
    /\ last.op = "create_chunks"
    /\ Len(last.chunks) >= 2
    /\ last.document.id > 1

(* C20: create_document never returns a document without content: a file   *)
(* that cannot be read, or yields no text, makes it raise.                 *)
C20_ExtractionNeverEmpty ==
    (last.op = "add_document" /\ ~last.result.raised) =>
        last.result.value.content # <<>>

---------------------------------------------------------------------------
(* Uploads (Spec) *)

(* a file the page accepts and the extraction libraries can read *)
Processable(file) ==
    /\ file.size_ok
    /\ Lower(Suffix(file.filename)) \in {".pdf", ".txt"}
    /\ file.open_ok /\ file.primary.ok /\ file.secondary.ok

(* C18: after an upload of a batch, the document list holds one document   *)
(* for every processable file of the batch, in the order of the batch,     *)
(* whatever happened to the other files; each of those got its own report. *)
C18_BatchPartialSuccess ==
    (last.op = "process_uploaded_files" /\ Len(last.files) <= MAX_FILES) =>
        LET expected == SelectSeq(last.files, Processable)
        IN  /\ Len(documents) = Len(expected)
            /\ \A i \in 1..Len(expected) :
                  /\ documents[i].filename = expected[i].filename
                  /\ documents[i].content = expected[i].primary.text
            /\ Len(last.reports) = Len(last.files)
            /\ \A i \in 1..Len(last.files) :
                  (last.reports[i] = "processed") = Processable(last.files[i])

(* a batch whose first file failed in extraction and whose second file was *)
(* added                                                                   *)
C18_Witness ==
    /\ last.op = "process_uploaded_files"
    /\ Len(last.files) = 2
    /\ last.reports = <<"error", "processed">>
    /\ Len(documents) = 1

---------------------------------------------------------------------------
(* The request and the transcript (SpecEngine) *)

Entries(history) ==
    [i \in 1..Len(history) |->
        [type |-> IF history[i].role = "user" THEN "human" ELSE "ai",
         content |-> history[i].content]]

(* C21: the request of a turn is the system prompt, then the last 6        *)
(* entries of the history that precedes the turn, then one user turn with  *)
(* the question; the question of the turn is in no other entry.            *)
C21_RequestShape ==
    (IsChat /\ last.request # NoRequest) =>
        LET preceding == SubSeq(conversation_history, 1, last.before)
        IN  /\ last.request.system = SystemPrompt
            /\ last.request.history = Entries(LastN(preceding, 6))
            /\ last.request.human.question = last.message
            /\ Len(last.request.history) % 2 = 0

(* C22: the history has even length and its roles alternate user,          *)
(* assistant: every chat call has appended a user entry and an assistant   *)
(* entry.                                                                  *)
C22_TurnsArePairs ==
    /\ Len(conversation_history) % 2 = 0
    /\ \A i \in 1..Len(conversation_history) :
          conversation_history[i].role = IF i % 2 = 1 THEN "user" ELSE "assistant"

(* C23: the user turn of the request carries the context and the question  *)
(* when the context is neither empty nor the sentinel, and the no-context   *)
(* statement and the question otherwise; the sentinel is never carried as  *)
(* context.                                                                *)
C23_ContextOrNoContext ==
    (IsChat /\ last.request # NoRequest) =>
        LET context == SE_search_documents(last.env.search1, last.env.search2).value.answer
            human == last.request.human
        IN  /\ human.question = last.message
            /\ human.context # NoContextSentinel
            /\ IF context # <<>> /\ context # NoContextSentinel
               THEN human.template = "with_context" /\ human.context = context
               ELSE human.template = "no_context" /\ human.context = <<>>

(* a turn whose search found nothing, in a conversation under way *)
C23_Witness ==
    /\ IsChat /\ last.request # NoRequest
    /\ last.request.human.template = "no_context"
    /\ last.env.search2.value = <<>>
    /\ last.before > 0

---------------------------------------------------------------------------
(* C24: a search given document ids returns sources of those documents     *)
(* only, and only chunks of those documents are in its answer.             *)
C24_SearchNarrowed ==
    (IsSearch /\ last.document_ids # <<>>) =>
        /\ \A i \in 1..Len(last.result.value.sources) :
              last.result.value.sources[i].document_id \in Range(last.document_ids)
        /\ \A i \in 1..Len(last.search2.value) :
              10 - last.search2.value[i].score >= MIN_SCORE =>
                  last.search2.value[i].doc.metadata.document_id
                      \in Range(last.document_ids)

---------------------------------------------------------------------------
(* C29: the engine's document list is the manager's document list. *)
C29_EngineDocumentsInSync ==
    /\ eng_documents = documents
    /\ CE_get_conversation_summary(conversation_history, eng_documents).documents_loaded
          = Len(DM_list_documents(documents))

---------------------------------------------------------------------------
(* C30: add_document that raises leaves the list as it was; add_document   *)
(* that returns has appended the returned document, whose id no document   *)
(* of the list had, and has changed nothing else.                          *)
C30_AddDocumentAllOrNothing ==
    [][last'.op = "add_document" =>
         IF last'.result.raised
         THEN documents' = documents
         ELSE /\ Len(documents') = Len(documents) + 1
              /\ SubSeq(documents', 1, Len(documents)) = documents
              /\ documents'[Len(documents')] = last'.result.value
              /\ last'.result.value.id \notin Ids(documents)
      ]_vars

(* an extraction failure on a manager that holds documents *)
C30_Witness ==
    /\ last.op = "add_document"
    /\ last.result.raised
    /\ last.result.message = <<"Failed to process PDF: ", "PyPDF2">>
    /\ Len(documents) >= 2

---------------------------------------------------------------------------
(* The auxiliary operations (SpecAuxiliary) *)

Matching(doc_ids, docs) == SelectSeq(doc_ids, LAMBDA id : id \in Ids(docs))

C28_AuxiliaryFrame ==
    [][last'.op \in {"generate_document_summary", "compare_documents", "extract_topics"} =>
          /\ conversation_history' = conversation_history
          /\ eng_documents' = eng_documents
      ]_vars

(* an auxiliary operation whose LLM request failed, in the middle of a     *)
(* conversation                                                            *)
C28_Witness ==
    /\ last.op \in {"generate_document_summary", "compare_documents", "extract_topics"}
    /\ ~last.result.raised
    /\ last.result.value = <<"Error al generar respuesta: ", "timeout">>
    /\ conversation_history # <<>>
    /\ eng_documents # <<>>

---------------------------------------------------------------------------
(* Extraction and keywords (SpecProcessor) *)

(* C25: process_pdf reads with PyPDF2 first; when that text is shorter     *)
(* than 100 characters it reads with pymupdf and returns that text; when   *)
(* it has 100 characters or more it returns it and pymupdf is not called.  *)
C25_PdfTwoTier ==
    (last.op = "process_pdf" /\ last.file.open_ok) =>
        /\ last.calls[2] = "PyPDF2"
        /\ \A i \in 1..Len(last.calls) : last.calls[i] = "fitz" => i > 2
        /\ last.file.primary.ok =>
              IF Len(last.file.primary.text) < 1
              THEN /\ last.calls = <<"open", "PyPDF2", "fitz">>
                   /\ last.file.secondary.ok =>
                         last.result = Ok(last.file.secondary.text)
                   /\ ~last.file.secondary.ok => last.result.raised
              ELSE /\ "fitz" \notin Range(last.calls)
                   /\ last.result = Ok(last.file.primary.text)

(* a text of just 100 characters from PyPDF2, returned although pymupdf    *)
(* would have read more                                                    *)
C25_Witness ==
    /\ last.op = "process_pdf"
    /\ last.file.primary = Read(<<31>>)
    /\ last.file.secondary = Read(<<41, 42>>)
    /\ last.result = Ok(<<31>>)

(* keywords is a list of at most max_keywords distinct lower-case words of *)
(* text, none a stop word, the more frequent first                         *)
IsKeywordList(keywords, text, max_keywords) ==
    LET lower == [i \in 1..Len(Tokens(text)) |-> LowerWord(Tokens(text)[i])]
        frequency(w) == Cardinality({i \in 1..Len(lower) : lower[i] = w})
    IN  /\ Len(keywords) <= max_keywords
        /\ \A i, j \in 1..Len(keywords) : i # j => keywords[i] # keywords[j]
        /\ \A i \in 1..Len(keywords) :
              /\ keywords[i] \in {"cat", "dog", "sun", "the"}
              /\ keywords[i] \notin {"the"}
              /\ frequency(keywords[i]) > 0
        /\ \A i, j \in 1..Len(keywords) :
              i < j => frequency(keywords[i]) >= frequency(keywords[j])

(* C27: extract_keywords returns such a list, and every document of the    *)
(* manager carries as topics the keyword list of its content.              *)
C27_Keywords ==
    /\ last.op = "extract_keywords" =>
          IsKeywordList(last.result, last.text, last.max_keywords)
    /\ \A i \in 1..Len(documents) :
          /\ IsKeywordList(documents[i].topics, documents[i].content, 10)
          /\ documents[i].topics = extract_keywords(documents[i].content, 10)

(* one keyword asked of a text that holds two, the more frequent one once  *)
(* in upper case, and a stop word                                          *)
C27_Witness ==
    /\ last.op = "extract_keywords"
    /\ last.max_keywords = 1
    /\ last.result = <<"cat">>
    /\ 52 \in Range(last.text) /\ 53 \in Range(last.text) /\ 54 \in Range(last.text)

=============================================================================
